---- MODULE Spec2Model ----
(***************************************************************************)
(* libmira's terminal GUI (gui.py): the GUI controller, the calls of       *)
(* GUI.start, the input thread, the render thread, the Screen context      *)
(* manager and the drawing API (draw, draw_string, the origin and          *)
(* direction references).                                                  *)
(*                                                                         *)
(* Spec and FairSpec are the lifecycle: every hook (setup, pre_render,     *)
(* render, post_render, keypress) is code of the embedding application;    *)
(* an invocation either returns, calls GUI.stop() and returns, or raises   *)
(* an exception of one of ExcKinds, and what it draws is left out.         *)
(* FrameSpec is one call of GUI.start on a controller whose hooks draw:    *)
(* it adds the screen size, the pixels and the output loops of a tick.     *)
(* ApiSpec applies the drawing functions, on their own, to every argument  *)
(* of bounded sets.                                                        *)
(***************************************************************************)
EXTENDS Integers, Sequences, FiniteSets

\* ------------------------------------------------------------------ bounds

\* number of calls of GUI.start made on the one GUI instance, numbered in
\* the order they begin: call 1 blocks its thread; the later calls are made
\* one after another by a second thread, once call 1 has started both
\* threads (the controller is running or has stopped)
MaxCalls == 2

\* number of KeyboardInterrupt/EOFError deliveries to a thread blocked in join
MaxInterrupts == 1

Callers == 1..MaxCalls

\* largest screen height and width the drawing functions are applied to
MaxHeight == 3

MaxWidth == 3

\* ------------------------------------------------------- exceptions, hooks

\* exception classes a hook or a key read may raise
ExcKinds == {"EOFError", "Exception", "SystemExit"}

NoExc == "None"

\* the key codes the terminal delivers; -1 (NoKey) is the read timeout
Keys == {"a"}

NoKey == "-1"

\* ------------------------------------------------------------ drawing API

\* Directions
LEFT == 0

UP_LEFT == 1

UP == 2

UP_RIGHT == 3

RIGHT == 4

DOWN_RIGHT == 5

DOWN == 6

DOWN_LEFT == 7

\* Origins
TOP_LEFT == 8

TOP_CENTER == 9

TOP_RIGHT == 10

CENTER_LEFT == 11

CENTER == 12

CENTER_RIGHT == 13

BOTTOM_LEFT == 14

BOTTOM_CENTER == 15

BOTTOM_RIGHT == 16

Directions ==
    {LEFT, UP_LEFT, UP, UP_RIGHT, RIGHT, DOWN_RIGHT, DOWN, DOWN_LEFT}

Origins ==
    {TOP_LEFT, TOP_CENTER, TOP_RIGHT, CENTER_LEFT, CENTER, CENTER_RIGHT,
     BOTTOM_LEFT, BOTTOM_CENTER, BOTTOM_RIGHT}

\* curses attributes: the default of the attr parameters, and another one
A_NORMAL == "A_NORMAL"

A_BOLD == "A_BOLD"

BLANK_PIXEL == <<" ", A_NORMAL>>

\* GUI.pixels = {}
NoPixels == [cell \in {} |-> BLANK_PIXEL]

\* GUI.screen_size, screen_height, screen_width before the render thread
\* first assigns them: __init__ does not create these attributes
NoSize == <<>>

\* the outcome of a call: the value it returns, or the exception it raises
Returned(v) == [exc |-> NoExc, value |-> v]

Raised(k) == [exc |-> k, value |-> <<>>]

\* self.pixels[cell] = pixel
Put(px, cell, pixel) ==
    [c \in DOMAIN px \cup {cell} |-> IF c = cell THEN pixel ELSE px[c]]

\* gui.pixels.get(cell, BLANK_PIXEL)
Get(px, cell) == IF cell \in DOMAIN px THEN px[cell] ELSE BLANK_PIXEL

DirectionDefaultsToRight(direction) ==
    IF direction = LEFT THEN Returned(<<-1, 0>>)
    ELSE IF direction = UP_LEFT THEN Returned(<<-1, 1>>)
    ELSE IF direction = UP THEN Returned(<<0, 1>>)
    ELSE IF direction = UP_RIGHT THEN Returned(<<1, 1>>)
    ELSE IF direction = DOWN_RIGHT THEN Returned(<<1, -1>>)
    ELSE IF direction = DOWN THEN Returned(<<0, -1>>)
    ELSE IF direction = DOWN_LEFT THEN Returned(<<-1, -1>>)
    ELSE Returned(<<1, 0>>)

\* GUI.get_directional_reference
get_directional_reference(direction) ==
    IF direction = LEFT THEN Returned(<<-1, 0>>)
    ELSE IF direction = UP_LEFT THEN Returned(<<-1, 1>>)
    ELSE IF direction = UP THEN Returned(<<0, 1>>)
    ELSE IF direction = UP_RIGHT THEN Returned(<<1, 1>>)
    ELSE IF direction = RIGHT THEN Returned(<<1, 0>>)
    ELSE IF direction = DOWN_RIGHT THEN Returned(<<1, -1>>)
    ELSE IF direction = DOWN THEN Returned(<<0, -1>>)
    ELSE IF direction = DOWN_LEFT THEN Returned(<<-1, -1>>)
    ELSE Raised("ValueError")

\* n >> 1
ShiftRight1(n) == n \div 2

OriginCenterRoundsUp(size, origin) ==
    IF origin = BOTTOM_LEFT THEN Returned(<<0, 0>>)
    ELSE IF origin \notin Origins THEN Raised("ValueError")
    ELSE IF size = NoSize THEN Raised("AttributeError")
    ELSE LET screen_height == size[1]
             screen_width == size[2]
             up(n) == (n + 1) \div 2
         IN  Returned(
             CASE origin = TOP_LEFT -> <<0, screen_height - 1>>
               [] origin = TOP_CENTER -> <<up(screen_width), screen_height - 1>>
               [] origin = TOP_RIGHT -> <<screen_width - 1, screen_height - 1>>
               [] origin = CENTER_LEFT -> <<0, up(screen_height)>>
               [] origin = CENTER -> <<up(screen_width), up(screen_height)>>
               [] origin = CENTER_RIGHT -> <<screen_width - 1, up(screen_height)>>
               [] origin = BOTTOM_CENTER -> <<up(screen_width), 0>>
               [] origin = BOTTOM_RIGHT -> <<screen_width - 1, 0>>)

\* GUI.get_origin_reference, for a controller whose screen_size is size.
\* BOTTOM_LEFT reads no attribute; an unknown origin reaches the else branch
\* and raises ValueError; every other origin reads screen_height or
\* screen_width, which raises AttributeError while they are not yet assigned
get_origin_reference(size, origin) ==
    IF origin = BOTTOM_LEFT THEN Returned(<<0, 0>>)
    ELSE IF origin \notin Origins THEN Raised("ValueError")
    ELSE IF size = NoSize THEN Raised("AttributeError")
    ELSE LET screen_height == size[1]
             screen_width == size[2]
         IN  Returned(
             CASE origin = TOP_LEFT -> <<0, screen_height - 1>>
               [] origin = TOP_CENTER ->
                    <<ShiftRight1(screen_width), screen_height - 1>>
               [] origin = TOP_RIGHT -> <<screen_width - 1, screen_height - 1>>
               [] origin = CENTER_LEFT -> <<0, ShiftRight1(screen_height)>>
               [] origin = CENTER ->
                    <<ShiftRight1(screen_width), ShiftRight1(screen_height)>>
               [] origin = CENTER_RIGHT ->
                    <<screen_width - 1, ShiftRight1(screen_height)>>
               [] origin = BOTTOM_CENTER -> <<ShiftRight1(screen_width), 0>>
               [] origin = BOTTOM_RIGHT -> <<screen_width - 1, 0>>)

DrawUnflipped(px, size, coord, character, attr) ==
    IF size = NoSize THEN Raised("AttributeError")
    ELSE IF /\ 0 <= coord[1] /\ coord[1] < size[2]
            /\ 0 <= coord[2] /\ coord[2] < size[1]
         THEN Returned(Put(px, <<coord[2], coord[1]>>, <<character, attr>>))
         ELSE Returned(px)

DrawClamps(px, size, coord, character, attr) ==
    IF size = NoSize THEN Raised("AttributeError")
    ELSE LET x == IF coord[1] < 0 THEN 0
                  ELSE IF coord[1] >= size[2] THEN size[2] - 1 ELSE coord[1]
             y == IF coord[2] < 0 THEN 0
                  ELSE IF coord[2] >= size[1] THEN size[1] - 1 ELSE coord[2]
         IN  Returned(Put(px, <<size[1] - (y + 1), x>>, <<character, attr>>))

\* GUI.draw on the pixels px of a controller whose screen_size is size: the
\* pixels it leaves, or the AttributeError of reading screen_width
draw(px, size, coord, character, attr) ==
    IF size = NoSize THEN Raised("AttributeError")
    ELSE LET x == coord[1]
             y == coord[2]
             screen_height == size[1]
             screen_width == size[2]
         IN  IF 0 <= x /\ x < screen_width /\ 0 <= y /\ y < screen_height
             THEN LET curses_y == screen_height - (y + 1)
                      curses_coord == <<curses_y, x>>
                  IN  Returned(Put(px, curses_coord, <<character, attr>>))
             ELSE Returned(px)

\* the for loop of GUI.draw_string from character i (counted from 1) on
RECURSIVE DrawEach(_, _, _, _, _, _, _)
DrawEach(px, size, base, step, string, attr, i) ==
    IF i > Len(string) THEN Returned(px)
    ELSE LET drawn == draw(px, size,
                           <<base[1] + step[1] * (i - 1),
                             base[2] + step[2] * (i - 1)>>,
                           string[i], attr)
         IN  IF drawn.exc # NoExc THEN drawn
             ELSE DrawEach(drawn.value, size, base, step, string, attr, i + 1)

DrawStringStopsAtEdge(px, size, coord, string, attr, direction, origin) ==
    LET o == get_origin_reference(size, origin)
        d == get_directional_reference(direction)
        base == <<o.value[1] + coord[1], o.value[2] + coord[2]>>
        inside(i) == /\ 0 <= base[1] + d.value[1] * (i - 1)
                     /\ base[1] + d.value[1] * (i - 1) < size[2]
                     /\ 0 <= base[2] + d.value[2] * (i - 1)
                     /\ base[2] + d.value[2] * (i - 1) < size[1]
        n == IF size = NoSize THEN Len(string)
             ELSE Cardinality({i \in 1..Len(string) :
                                  \A j \in 1..i : inside(j)})
    IN  IF o.exc # NoExc THEN o
        ELSE IF d.exc # NoExc THEN d
        ELSE DrawEach(px, size, base, d.value, SubSeq(string, 1, n), attr, 1)

\* GUI.draw_string: the origin is resolved, then the direction, then the
\* characters are drawn one by one
draw_string(px, size, coord, string, attr, direction, origin) ==
    LET o == get_origin_reference(size, origin)
        d == get_directional_reference(direction)
    IN  IF o.exc # NoExc THEN o
        ELSE IF d.exc # NoExc THEN d
        ELSE DrawEach(px, size,
                      <<o.value[1] + coord[1], o.value[2] + coord[2]>>,
                      d.value, string, attr, 1)

\* a call of the drawing API: draw(coord, string[1], attr=attr) or
\* draw_string(coord, string, attr=attr, direction=direction, origin=origin)
DrawCall(coord, character, attr) ==
    [api |-> "draw", coord |-> coord, string |-> <<character>>, attr |-> attr,
     direction |-> RIGHT, origin |-> BOTTOM_LEFT]

DrawStringCall(coord, string, attr, direction, origin) ==
    [api |-> "draw_string", coord |-> coord, string |-> string, attr |-> attr,
     direction |-> direction, origin |-> origin]

\* no drawing call made yet
NoCall ==
    [api |-> "none", coord |-> <<0, 0>>, string |-> <<>>, attr |-> A_NORMAL,
     direction |-> RIGHT, origin |-> BOTTOM_LEFT]

\* the outcome of the call c on the pixels px and the screen size size
Apply(c, px, size) ==
    IF c.api = "draw"
    THEN draw(px, size, c.coord, c.string[1], c.attr)
    ELSE draw_string(px, size, c.coord, c.string, c.attr, c.direction,
                     c.origin)

VARIABLES
    running,        \* GUI.running
    screen,         \* GUI.screen: "None" or curses' standard screen
    log,            \* lines of ~/.gui_log
    input_thread,   \* position of the input thread
    key,            \* input_thread's local key
    undispatched,   \* history: key codes read and not yet passed to keypress
    render_thread,  \* position of the render thread
    tick,           \* history: steps of the render tick in progress, in order
    stop_in_hook,   \* history: a hook of one of the loops called stop()
    caller,         \* position of each call of GUI.start
    caller_exc,     \* exception propagating in a call of GUI.start
    entered,        \* Screen.__enter__ calls made on each call's Screen
    exited,         \* Screen.__exit__ calls made on each call's Screen
    terminal,       \* terminal mode: "normal" or "raw"
    interrupts,     \* interrupts delivered so far
    setup_calls,    \* invocations of the setup hook so far
    screen_size,    \* GUI.screen_size: <<>> until first set, then <<height, width>>
    pixels,         \* GUI.pixels: device cell <<row, column>> -> <<character, attr>>
    flush_at,       \* cells the output loops of the tick in progress have passed
    addstr,         \* arguments of the last gui.screen.addstr call of the tick
    swallowed,      \* history: an addstr call of the tick in progress raised
    before,         \* history: GUI.pixels before the last drawing call
    call,           \* history: the last call of draw or draw_string
    result,         \* history: the exception the last drawing call raised
    unflushed       \* history: cells keypress drew that no addstr call was made for

inputVars == <<input_thread, key, undispatched>>

renderVars == <<render_thread, tick>>

screenVars == <<entered, exited, terminal>>

callVars == <<caller, caller_exc, interrupts, setup_calls>>

frameVars == <<screen_size, pixels, flush_at, addstr, swallowed, before,
               call, result, unflushed>>

vars == <<running, screen, log, inputVars, renderVars, stop_in_hook,
          screenVars, callVars, frameVars>>

\* ---------------------------------------------------------------- GUI

\* GUI.__init__
Init ==
    /\ running = TRUE
    /\ screen = "None"
    /\ log = <<>>
    /\ input_thread = "new"
    /\ key = NoKey
    /\ undispatched = <<>>
    /\ render_thread = "new"
    /\ tick = <<>>
    /\ stop_in_hook = FALSE
    /\ caller = [c \in Callers |-> "ready"]
    /\ caller_exc = [c \in Callers |-> NoExc]
    /\ entered = [c \in Callers |-> 0]
    /\ exited = [c \in Callers |-> 0]
    /\ terminal = "normal"
    /\ interrupts = 0
    /\ setup_calls = 0
    /\ screen_size = NoSize
    /\ pixels = NoPixels
    /\ flush_at = 0
    /\ addstr = <<>>
    /\ swallowed = FALSE
    /\ before = NoPixels
    /\ call = NoCall
    /\ result = NoExc
    /\ unflushed = {}

GuiAlwaysTrue(r) == TRUE

\* GUI.__bool__
GuiBool(r) == r

StopToggles(r) == ~r

StopLeavesFlag(r) == r

\* GUI.stop: the value it leaves in GUI.running
stop(r) == FALSE

\* GUI.log: the file after appending one line (its text without the
\* timestamp and without the formatted exception)
Logged(file, text) == Append(file, text)

\* GUI.stop called by application code outside the hooks, from any thread
Stop ==
    /\ running' = stop(running)
    /\ UNCHANGED <<screen, log, inputVars, renderVars, stop_in_hook,
                   screenVars, callVars,
                   frameVars>>

\* ---------------------------------------------------------------- Screen

\* Screen.__enter__: initscr, noecho, cbreak, keypad, colors, timeout
ScreenEnter(c) ==
    /\ entered' = [entered EXCEPT ![c] = @ + 1]
    /\ terminal' = "raw"
    /\ UNCHANGED exited

\* Screen.__exit__: curs_set, keypad(0), echo, nocbreak, endwin
ScreenExit(c) ==
    /\ exited' = [exited EXCEPT ![c] = @ + 1]
    /\ terminal' = "normal"
    /\ UNCHANGED entered

\* ------------------------------------------------------------- GUI.start

\* start() is left by a return or by an exception
Left == {"returned", "raised"}

LaunchBeforeSetup == "start_input"

\* the first statements of the body of the with statement:
\* self.screen = screen; self.setup()
AfterEnter == "setup"

\* the truncation of the log file, the first log line, and the entry of
\* the with statement: Screen.__enter__
StartEnter(c) ==
    /\ caller[c] = "ready"
    /\ c > 1 => render_thread # "new"
    /\ c > 2 => caller[c - 1] \in Left
    /\ log' = Logged(<<>>, "GUI start")
    /\ ScreenEnter(c)
    /\ caller' = [caller EXCEPT ![c] = AfterEnter]
    /\ UNCHANGED <<running, screen, inputVars, renderVars, stop_in_hook,
                   caller_exc, interrupts, setup_calls,
                   frameVars>>

BodyRaiseSkipsExit == "raised"

\* where an exception raised in the body of the with statement goes: no
\* except clause of start() encloses setup() or the Thread.start calls, so
\* the with statement is left through Screen.__exit__
AfterBodyRaise == "exit_raise"

\* self.screen = screen; self.setup(): the hook returns, or calls stop() and
\* returns, or raises
StartSetup(c) ==
    /\ caller[c] = "setup"
    /\ screen' = "stdscr"
    /\ setup_calls' = setup_calls + 1
    /\ \/ /\ caller' = [caller EXCEPT ![c] = "start_input"]
          /\ UNCHANGED <<running, caller_exc>>
       \/ /\ running' = stop(running)
          /\ caller' = [caller EXCEPT ![c] = "start_input"]
          /\ UNCHANGED caller_exc
       \/ \E k \in ExcKinds :
             /\ caller_exc' = [caller_exc EXCEPT ![c] = k]
             /\ caller' = [caller EXCEPT ![c] = AfterBodyRaise]
             /\ UNCHANGED running
    /\ UNCHANGED <<log, inputVars, renderVars, stop_in_hook, screenVars,
                   interrupts,
                   frameVars>>

ThreadStartNeverRaises(t) == FALSE

\* Thread.start on a Thread object made in __init__ raises RuntimeError
\* when that thread was started before
ThreadStartRaises(t) == t # "new"

\* self.input_thread.start()
StartInputThread(c) ==
    /\ caller[c] = "start_input"
    /\ IF ThreadStartRaises(input_thread)
         THEN /\ caller_exc' = [caller_exc EXCEPT ![c] = "RuntimeError"]
              /\ caller' = [caller EXCEPT ![c] = AfterBodyRaise]
              /\ UNCHANGED input_thread
         ELSE /\ input_thread' = "check"
              /\ caller' = [caller EXCEPT ![c] = "start_render"]
              /\ UNCHANGED caller_exc
    /\ UNCHANGED <<running, screen, log, key, undispatched, renderVars,
                   stop_in_hook, screenVars, interrupts, setup_calls,
                   frameVars>>

\* self.render_thread.start()
StartRenderThread(c) ==
    /\ caller[c] = "start_render"
    /\ IF ThreadStartRaises(render_thread)
         THEN /\ caller_exc' = [caller_exc EXCEPT ![c] = "RuntimeError"]
              /\ caller' = [caller EXCEPT ![c] = AfterBodyRaise]
              /\ UNCHANGED render_thread
         ELSE /\ render_thread' = "check"
              /\ caller' = [caller EXCEPT ![c] = "join_input"]
              /\ UNCHANGED caller_exc
    /\ UNCHANGED <<running, screen, log, inputVars, tick, stop_in_hook,
                   screenVars, interrupts, setup_calls,
                   frameVars>>

\* a thread has ended when its target returned ("done") or raised ("died")
Ended == {"done", "died"}

\* self.input_thread.join() returns when the input thread has ended
JoinInput(c) ==
    /\ caller[c] = "join_input"
    /\ input_thread \in Ended
    /\ caller' = [caller EXCEPT ![c] = "join_render"]
    /\ UNCHANGED <<running, screen, log, inputVars, renderVars, stop_in_hook,
                   screenVars, caller_exc, interrupts, setup_calls,
                   frameVars>>

\* self.render_thread.join() returns when the render thread has ended; break
JoinRender(c) ==
    /\ caller[c] = "join_render"
    /\ render_thread \in Ended
    /\ caller' = [caller EXCEPT ![c] = "exit"]
    /\ UNCHANGED <<running, screen, log, inputVars, renderVars, stop_in_hook,
                   screenVars, caller_exc, interrupts, setup_calls,
                   frameVars>>

\* KeyboardInterrupt or EOFError raised in the thread blocked in a join:
\* except (KeyboardInterrupt, EOFError): stop, log, and join again
StartExcept(c) ==
    /\ caller[c] \in {"join_input", "join_render"}
    /\ interrupts < MaxInterrupts
    /\ interrupts' = interrupts + 1
    /\ running' = stop(running)
    /\ log' = Logged(log, "GUI ended by keyboard interrupt")
    /\ caller' = [caller EXCEPT ![c] = "join_input"]
    /\ UNCHANGED <<screen, inputVars, renderVars, stop_in_hook, screenVars,
                   caller_exc, setup_calls,
                   frameVars>>

\* the with statement left by break: Screen.__exit__; then the last log
\* line, and start() returns
StartExit(c) ==
    /\ caller[c] = "exit"
    /\ ScreenExit(c)
    /\ log' = Logged(log, "GUI end")
    /\ caller' = [caller EXCEPT ![c] = "returned"]
    /\ UNCHANGED <<running, screen, inputVars, renderVars, stop_in_hook,
                   caller_exc, interrupts, setup_calls,
                   frameVars>>

\* the with statement left by an exception: Screen.__exit__ returns None,
\* so the exception goes on to the caller of start()
StartExitRaise(c) ==
    /\ caller[c] = "exit_raise"
    /\ ScreenExit(c)
    /\ caller' = [caller EXCEPT ![c] = "raised"]
    /\ UNCHANGED <<running, screen, log, inputVars, renderVars, stop_in_hook,
                   caller_exc, interrupts, setup_calls,
                   frameVars>>

\* a step of a call of start() that the calling thread takes by itself
CallerRun(c) ==
    \/ StartSetup(c)
    \/ StartInputThread(c)
    \/ StartRenderThread(c)
    \/ JoinInput(c)
    \/ JoinRender(c)
    \/ StartExit(c)
    \/ StartExitRaise(c)

\* ----------------------------------------------------------- input_thread

\* Python's hierarchy: every exception class is a BaseException; SystemExit
\* and KeyboardInterrupt are not below Exception
IsBaseException(k) ==
    k \in {"KeyboardInterrupt", "SystemExit", "EOFError", "Exception",
           "RuntimeError", "ValueError", "AttributeError", "curses.error"}

IsException(k) ==
    k \in {"EOFError", "Exception", "RuntimeError", "ValueError",
           "AttributeError", "curses.error"}

\* the except clauses of input_thread, in order: where a raise in the try
\* block goes ("died": no clause matches, the thread ends with the exception)
InputCatch(k) ==
    IF k \in {"KeyboardInterrupt", "EOFError"} THEN "except_eof"
    ELSE IF IsBaseException(k) THEN "except_base"
    ELSE "died"

\* while gui
InputCheck ==
    /\ input_thread = "check"
    /\ input_thread' = IF GuiBool(running) THEN "getch" ELSE "done"
    /\ UNCHANGED <<running, screen, log, key, undispatched, renderVars,
                   stop_in_hook, screenVars, callVars,
                   frameVars>>

ReadAlwaysDispatches(k) == "keypress"

\* if key == -1: continue / gui.keypress(key): where the loop goes with the
\* value getch returned
AfterRead(k) == IF k = NoKey THEN "check" ELSE "keypress"

\* the key codes still to be passed to keypress once keypress was invoked
Dispatched(q) == IF q = <<>> THEN q ELSE Tail(q)

\* key = gui.screen.getch(); if key == -1: continue. The read times out
\* after Screen's timeout(50) and returns -1, or returns a key code, or raises
InputGetch ==
    /\ input_thread = "getch"
    /\ \/ /\ key' = NoKey
          /\ input_thread' = AfterRead(key')
          /\ UNCHANGED undispatched
       \/ /\ key' \in Keys
          /\ input_thread' = AfterRead(key')
          /\ undispatched' = Append(undispatched, key')
       \/ \E k \in ExcKinds :
             /\ input_thread' = InputCatch(k)
             /\ UNCHANGED <<key, undispatched>>
    /\ UNCHANGED <<running, screen, log, renderVars, stop_in_hook,
                   screenVars, callVars,
                   frameVars>>

\* gui.keypress(key): the hook returns, or calls stop() and returns, or
\* raises
InputKeypress ==
    /\ input_thread = "keypress"
    /\ \/ /\ input_thread' = "check"
          /\ UNCHANGED <<running, stop_in_hook>>
       \/ /\ running' = stop(running)
          /\ stop_in_hook' = TRUE
          /\ input_thread' = "check"
       \/ \E k \in ExcKinds :
             /\ input_thread' = InputCatch(k)
             /\ UNCHANGED <<running, stop_in_hook>>
    /\ undispatched' = Dispatched(undispatched)
    /\ UNCHANGED <<screen, log, key, renderVars, screenVars, callVars,
                   frameVars>>

\* except (KeyboardInterrupt, EOFError): stop and log
InputExceptEof ==
    /\ input_thread = "except_eof"
    /\ running' = stop(running)
    /\ log' = Logged(log, "Input thread received Keyboard Interrupt / EOF")
    /\ input_thread' = "check"
    /\ UNCHANGED <<screen, key, undispatched, renderVars, stop_in_hook,
                   screenVars, callVars,
                   frameVars>>

\* except BaseException as e: stop and log
InputExceptBase ==
    /\ input_thread = "except_base"
    /\ running' = stop(running)
    /\ log' = Logged(log, "Input thread exception")
    /\ input_thread' = "check"
    /\ UNCHANGED <<screen, key, undispatched, renderVars, stop_in_hook,
                   screenVars, callVars,
                   frameVars>>

InputStep ==
    \/ InputCheck
    \/ InputGetch
    \/ InputKeypress
    \/ InputExceptEof
    \/ InputExceptBase

\* ---------------------------------------------------------- render_thread

RenderHooks == {"pre_render", "render", "post_render"}

RenderCatchException(k) == IF IsException(k) THEN "except" ELSE "died"

\* the except clause of render_thread: where a raise in the try block goes
RenderCatch(k) == IF IsBaseException(k) THEN "except" ELSE "died"

RenderAfterSwapped(step) ==
    CASE step = "sleep" -> "getmaxyx"
      [] step = "getmaxyx" -> "pre_render"
      [] step = "pre_render" -> "render"
      [] step = "render" -> "post_render"
      [] step = "post_render" -> "clear"
      [] step = "clear" -> "flush"
      [] step = "flush" -> "check"

\* the statements of the loop body in program order: what follows a
\* statement that completed
RenderAfter(step) ==
    CASE step = "sleep" -> "getmaxyx"
      [] step = "getmaxyx" -> "pre_render"
      [] step = "pre_render" -> "render"
      [] step = "render" -> "post_render"
      [] step = "post_render" -> "flush"
      [] step = "flush" -> "clear"
      [] step = "clear" -> "check"

\* while gui: a tick begins, or the loop ends
RenderCheck ==
    /\ render_thread = "check"
    /\ render_thread' = IF GuiBool(running) THEN "sleep" ELSE "done"
    /\ tick' = <<>>
    /\ UNCHANGED <<running, screen, log, inputVars, stop_in_hook, screenVars,
                   callVars,
                   frameVars>>

\* sleep(SLEEP_TIME)
RenderSleep ==
    /\ render_thread = "sleep"
    /\ render_thread' = RenderAfter("sleep")
    /\ UNCHANGED <<running, screen, log, inputVars, tick, stop_in_hook,
                   screenVars, callVars,
                   frameVars>>

\* the statements of the try block that call no hook: the resampling of
\* the window size, the output of the pixels, the zeroing of the pixels
RenderStatement ==
    /\ render_thread \in {"getmaxyx", "flush", "clear"}
    /\ tick' = Append(tick, render_thread)
    /\ render_thread' = RenderAfter(render_thread)
    /\ UNCHANGED <<running, screen, log, inputVars, stop_in_hook, screenVars,
                   callVars,
                   frameVars>>

\* gui.pre_render(), gui.render(), gui.post_render(): the hook returns, or
\* calls stop() and returns, or raises
RenderHook ==
    /\ render_thread \in RenderHooks
    /\ tick' = Append(tick, render_thread)
    /\ \/ /\ render_thread' = RenderAfter(render_thread)
          /\ UNCHANGED <<running, stop_in_hook>>
       \/ /\ running' = stop(running)
          /\ stop_in_hook' = TRUE
          /\ render_thread' = RenderAfter(render_thread)
       \/ \E k \in ExcKinds :
             /\ render_thread' = RenderCatch(k)
             /\ UNCHANGED <<running, stop_in_hook>>
    /\ UNCHANGED <<screen, log, inputVars, screenVars, callVars,
                   frameVars>>

\* except BaseException as e: stop and log
RenderExcept ==
    /\ render_thread = "except"
    /\ running' = stop(running)
    /\ log' = Logged(log, "Render thread exception")
    /\ render_thread' = "check"
    /\ UNCHANGED <<screen, inputVars, tick, stop_in_hook, screenVars,
                   callVars,
                   frameVars>>

RenderStep ==
    \/ RenderCheck
    \/ RenderSleep
    \/ RenderStatement
    \/ RenderHook
    \/ RenderExcept

\* ------------------------------------------------------------ the program

Next ==
    \/ \E c \in Callers : StartEnter(c)
    \/ \E c \in Callers : CallerRun(c)
    \/ \E c \in Callers : StartExcept(c)
    \/ Stop
    \/ InputStep
    \/ RenderStep

Spec == Init /\ [][Next]_vars

\* the threads are scheduled: a thread that can take a step takes one (the
\* hooks return, a key read returns within its timeout); whether start() is
\* called again, stop() is called from outside and an interrupt arrives is
\* left open
FairSpec ==
    /\ Spec
    /\ WF_vars(InputStep)
    /\ WF_vars(RenderStep)
    /\ \A c \in Callers : WF_vars(CallerRun(c))

\* ------------------------------------------------- the frames of one run

\* a call of GUI.draw or GUI.draw_string by application code: GUI.pixels
\* after it, and the exception it raised
DrawingCall(c) ==
    LET outcome == Apply(c, pixels, screen_size)
    IN  /\ before' = pixels
        /\ call' = c
        /\ result' = outcome.exc
        /\ pixels' = IF outcome.exc = NoExc THEN outcome.value ELSE pixels

\* the window sizes <<height, width>> gui.screen.getmaxyx() returns
ScreenSizes == {<<2, 3>>, <<1, 2>>}

\* the drawing calls the hooks of the application make: two draws to one
\* cell, a draw that is inside one window size and outside the other, a
\* string, and a string with an unknown direction
HookCalls ==
    {DrawCall(<<0, 0>>, "H", A_BOLD),
     DrawCall(<<0, 0>>, "I", A_BOLD),
     DrawCall(<<2, 1>>, "H", A_BOLD),
     DrawStringCall(<<0, 0>>, <<"H", "I">>, A_BOLD, RIGHT, BOTTOM_LEFT),
     DrawStringCall(<<0, 0>>, <<"H", "I">>, A_BOLD, CENTER, BOTTOM_LEFT)}

\* the cells whose entry a drawing call set or changed
Written(px, after) ==
    {cell \in DOMAIN after : cell \notin DOMAIN px \/ after[cell] # px[cell]}

\* gui.keypress(key) of an application that draws: the hook returns, or
\* makes a drawing call and returns, or the drawing call raises
FrameKeypress ==
    /\ input_thread = "keypress"
    /\ \/ /\ input_thread' = "check"
          /\ UNCHANGED <<pixels, before, call, result>>
       \/ \E c \in HookCalls :
             /\ DrawingCall(c)
             /\ input_thread' = IF result' = NoExc THEN "check"
                                ELSE InputCatch(result')
    /\ undispatched' = Dispatched(undispatched)
    /\ unflushed' = unflushed \cup Written(pixels, pixels')
    /\ UNCHANGED <<running, screen, log, key, renderVars, stop_in_hook,
                   screenVars, callVars, screen_size, flush_at, addstr,
                   swallowed>>

\* gui.screen_size = gui.screen.getmaxyx(); gui.screen_height = ...;
\* gui.screen_width = ...
FrameGetmaxyx ==
    /\ render_thread = "getmaxyx"
    /\ screen_size' \in ScreenSizes
    /\ tick' = Append(tick, render_thread)
    /\ render_thread' = RenderAfter(render_thread)
    /\ UNCHANGED <<running, screen, log, inputVars, stop_in_hook, screenVars,
                   callVars, pixels, flush_at, addstr, swallowed, before,
                   call, result, unflushed>>

\* gui.pre_render(), gui.render(), gui.post_render() of an application that
\* draws: the hook returns, or makes a drawing call and returns, or the
\* drawing call raises
FrameHook ==
    /\ render_thread \in RenderHooks
    /\ tick' = Append(tick, render_thread)
    /\ \/ /\ render_thread' = RenderAfter(render_thread)
          /\ UNCHANGED <<pixels, before, call, result>>
       \/ \E c \in HookCalls :
             /\ DrawingCall(c)
             /\ render_thread' = IF result' = NoExc
                                 THEN RenderAfter(render_thread)
                                 ELSE RenderCatch(result')
    /\ unflushed' = unflushed \ Written(pixels, pixels')
    /\ UNCHANGED <<running, screen, log, inputVars, stop_in_hook, screenVars,
                   callVars, screen_size, flush_at, addstr, swallowed>>

\* the cell the output loops reach after n cells:
\* for y in range(screen_height): for x in range(screen_width)
CellAt(size, n) == <<n \div size[2], n % size[2]>>

AddstrCatchNothing(k) == "raise"

\* try: gui.screen.addstr(y, x, *pixel) / except Exception: pass
AddstrCatch(k) == IF IsException(k) THEN "pass" ELSE "raise"

\* one pass of the inner output loop: pixel = gui.pixels.get((y, x),
\* BLANK_PIXEL) and the addstr call, which returns or raises curses.error;
\* after the last cell the loops are left
FrameFlush ==
    /\ render_thread = "flush"
    /\ LET cell == CellAt(screen_size, flush_at)
           pixel == Get(pixels, cell)
           last == flush_at + 1 = screen_size[1] * screen_size[2]
       IN  /\ addstr' = <<cell[1], cell[2], pixel>>
           /\ unflushed' = unflushed \ {cell}
           /\ \/ /\ UNCHANGED swallowed
                 /\ flush_at' = flush_at + 1
                 /\ render_thread' = IF last THEN RenderAfter(render_thread)
                                     ELSE render_thread
                 /\ tick' = IF last THEN Append(tick, render_thread) ELSE tick
              \/ IF AddstrCatch("curses.error") = "pass"
                 THEN /\ swallowed' = TRUE
                      /\ flush_at' = flush_at + 1
                      /\ render_thread' =
                            IF last THEN RenderAfter(render_thread)
                            ELSE render_thread
                      /\ tick' = IF last THEN Append(tick, render_thread)
                                 ELSE tick
                 ELSE /\ render_thread' = RenderCatch("curses.error")
                      /\ UNCHANGED <<swallowed, flush_at, tick>>
    /\ UNCHANGED <<running, screen, log, inputVars, stop_in_hook, screenVars,
                   callVars, screen_size, pixels, before, call, result>>

\* gui.pixels = {}; the tick's histories begin anew
FrameClear ==
    /\ render_thread = "clear"
    /\ pixels' = NoPixels
    /\ flush_at' = 0
    /\ addstr' = <<>>
    /\ swallowed' = FALSE
    /\ before' = NoPixels
    /\ call' = NoCall
    /\ result' = NoExc
    /\ unflushed' = {}
    /\ tick' = Append(tick, render_thread)
    /\ render_thread' = RenderAfter(render_thread)
    /\ UNCHANGED <<running, screen, log, inputVars, stop_in_hook, screenVars,
                   callVars, screen_size>>

\* one call of start() on a controller whose hooks draw
FrameNext ==
    \/ StartEnter(1)
    \/ CallerRun(1)
    \/ InputCheck
    \/ InputGetch
    \/ FrameKeypress
    \/ InputExceptEof
    \/ InputExceptBase
    \/ RenderCheck
    \/ RenderSleep
    \/ FrameGetmaxyx
    \/ FrameHook
    \/ FrameFlush
    \/ FrameClear
    \/ RenderExcept

FrameSpec == Init /\ [][FrameNext]_vars

\* ------------------------------------------- the drawing API on its own

\* the screen sizes, coordinates, texts and identifiers the drawing
\* functions are applied to
ApiSizes == {NoSize} \cup {<<h, w>> : h \in 1..MaxHeight, w \in 1..MaxWidth}

ApiCoords == {<<x, y>> : x \in (-1)..MaxWidth, y \in (-1)..MaxHeight}

Characters == {"H", "I"}

Strings == {<<>>, <<"H", "I">>}

\* the identifiers passed as direction: the 8 directions and an origin
DirectionArgs == Directions \cup {CENTER}

\* the identifiers passed as origin: the 9 origins and a direction
OriginArgs == Origins \cup {RIGHT}

ApiCalls ==
    {DrawCall(xy, ch, A_BOLD) : xy \in ApiCoords, ch \in Characters}
    \cup {DrawStringCall(c[1], c[2], A_BOLD, c[3], c[4]) :
            c \in ApiCoords \X Strings \X DirectionArgs \X OriginArgs}

\* the pixels a call finds: none, or the one left by an earlier
\* draw((0, screen_height - 1), "I")
ApiBuffers(size) ==
    {NoPixels} \cup
    (IF size = NoSize THEN {}
     ELSE {draw(NoPixels, size, <<0, size[1] - 1>>, "I", A_NORMAL).value})

\* a controller with the screen size and the pixels the call is to find
ApiInit ==
    /\ running = TRUE
    /\ screen = "None"
    /\ log = <<>>
    /\ input_thread = "new"
    /\ key = NoKey
    /\ undispatched = <<>>
    /\ render_thread = "new"
    /\ tick = <<>>
    /\ stop_in_hook = FALSE
    /\ caller = [c \in Callers |-> "ready"]
    /\ caller_exc = [c \in Callers |-> NoExc]
    /\ entered = [c \in Callers |-> 0]
    /\ exited = [c \in Callers |-> 0]
    /\ terminal = "normal"
    /\ interrupts = 0
    /\ setup_calls = 0
    /\ screen_size \in ApiSizes
    /\ pixels \in ApiBuffers(screen_size)
    /\ flush_at = 0
    /\ addstr = <<>>
    /\ swallowed = FALSE
    /\ before = NoPixels
    /\ call = NoCall
    /\ result = NoExc
    /\ unflushed = {}

\* one call of the drawing API
ApiApply ==
    /\ call = NoCall
    /\ \E c \in ApiCalls : DrawingCall(c)
    /\ UNCHANGED <<running, screen, log, inputVars, renderVars, stop_in_hook,
                   screenVars, callVars, screen_size, flush_at, addstr,
                   swallowed, unflushed>>

ApiNext == ApiApply

ApiSpec == ApiInit /\ [][ApiNext]_vars

\* ----------------------------------------------------------------- claims

\* number of lines of the log file that are one of the given texts
Count(file, texts) == Cardinality({i \in DOMAIN file : file[i] \in texts})

\* the lines written by the except clauses, each right after a stop()
StopLines ==
    {"GUI ended by keyboard interrupt",
     "Input thread received Keyboard Interrupt / EOF",
     "Input thread exception", "Render thread exception"}

InputBody == {"getch", "keypress", "except_eof", "except_base"}

RenderBody ==
    {"sleep", "getmaxyx", "pre_render", "render", "post_render", "flush",
     "clear", "except"}

\* a loop thread is running: started and not ended
LoopsRunning == input_thread \in InputBody \cup {"check"}
                \/ render_thread \in RenderBody \cup {"check"}

\* this step begins an iteration of one of the loops
IterationBegins ==
    \/ input_thread = "check" /\ input_thread' = "getch"
    \/ render_thread = "check" /\ render_thread' = "sleep"

\* this step begins the invocation of a hook of one of the loops
HookBegins ==
    \/ input_thread = "keypress" /\ input_thread' # "keypress"
    \/ render_thread \in RenderHooks /\ render_thread' # render_thread

\* C1: the running flag is true from construction; once it is false no step
\* of any thread (stop() calls, loop failures, hooks) makes it true again,
\* and a stop() call made when it is already false changes nothing at all.
C1_RunningSingleShot ==
    /\ running = TRUE
    /\ [][/\ ~running => ~running'
          /\ (Stop /\ ~running) => UNCHANGED vars]_vars

\* C1's case: running is false and stop() has been called at least twice
\* (two except clauses have each stopped and logged).
C1_Witness == ~running /\ Count(log, StopLines) >= 2

\* C2: every call of start() enters its Screen at most once and never exits
\* it more often than it entered it; when the call is left, by return or by
\* exception, its Screen has been exited exactly once, and the step that
\* leaves start() leaves the terminal in its normal mode.
C2_ScreenReleasedOnce ==
    /\ [](\A c \in Callers :
            /\ exited[c] <= entered[c]
            /\ entered[c] <= 1
            /\ caller[c] # "ready" => entered[c] = 1
            /\ caller[c] \in Left => exited[c] = 1)
    /\ [][\A c \in Callers :
            (caller[c] \notin Left /\ caller'[c] \in Left)
                => (terminal' = "normal" /\ exited'[c] = 1)]_vars

\* C2's case: a call of start() has returned after an interrupt was
\* delivered to it in a join and after the render loop failed.
C2_Witness ==
    \E c \in Callers :
        /\ caller[c] = "returned"
        /\ exited[c] = 1
        /\ Count(log, {"GUI ended by keyboard interrupt"}) = 1
        /\ Count(log, {"Render thread exception"}) = 1

\* C3: whenever Screen.__exit__ has run for a call of start(), neither loop
\* thread is still running.
C3_NoReleaseWhileLoopsRun ==
    \A c \in Callers : exited[c] > 0 => ~LoopsRunning

\* C4: no error escapes start(): a call is never left by an exception of a
\* hook (the usage error of a repeated call apart).
C4_NothingEscapesStart ==
    \A c \in Callers : caller[c] = "raised" => caller_exc[c] = "RuntimeError"

\* C5: once a hook of one of the loops has called stop(), both loops end
\* and a call of start() returns; from then on neither loop begins another
\* iteration.
C5_StopInHookEndsRun ==
    /\ stop_in_hook ~> (/\ input_thread \in Ended
                        /\ render_thread \in Ended
                        /\ \E c \in Callers : caller[c] = "returned")
    /\ [][stop_in_hook => ~IterationBegins]_vars

\* C5's case: stop() was called in a hook while both loops were in the
\* middle of an iteration.
C5_Witness ==
    /\ stop_in_hook
    /\ input_thread \in InputBody
    /\ render_thread \in RenderBody

\* C6 as stated: no hook invocation begins while the running flag is false.
C6_NoHookBeginsAfterStop == [][HookBegins => running]_vars

\* C6 as amended: while the running flag is false no loop begins another
\* iteration (the hooks left in the iteration in progress still begin).
C6_NoIterationBeginsAfterStop == [][~running => ~IterationBegins]_vars

\* C6's case: the flag is false and the render loop, in the middle of a
\* tick, is about to invoke render.
C6_Witness == ~running /\ render_thread = "render"

\* the steps of a tick in the order the claim gives
TickOrder ==
    <<"getmaxyx", "pre_render", "render", "post_render", "flush", "clear">>

IsPrefix(s, t) == Len(s) <= Len(t) /\ \A i \in 1..Len(s) : s[i] = t[i]

\* C7: the steps taken in a tick are an initial part of resample,
\* pre_render, render, post_render, flush, clear, in that order, and a tick
\* begins only when the one before it went through to clear.
C7_TickOrder ==
    /\ [](IsPrefix(tick, TickOrder))
    /\ [][(render_thread = "check" /\ render_thread' = "sleep")
            => tick \in {<<>>, TickOrder}]_vars

\* C7's case: a tick went through all six steps and the next one has begun.
C7_Witness == tick = TickOrder /\ render_thread = "check" /\ running

\* C8: an exception raised in a loop never ends the thread ("died"); the
\* except clause that catches it leaves running false, appends exactly one
\* line to the log and goes back to the loop test; once such a line is in
\* the log the loop that wrote it is at its test or has ended, and it never
\* writes a second one.
C8_LoopFailureHandled ==
    /\ [](/\ input_thread # "died"
          /\ render_thread # "died"
          /\ Count(log, {"Render thread exception"}) <= 1
          /\ Count(log, {"Render thread exception"}) = 1
               => ~running /\ render_thread \in {"check", "done"}
          /\ Count(log, {"Input thread exception",
                         "Input thread received Keyboard Interrupt / EOF"}) <= 1
          /\ Count(log, {"Input thread exception",
                         "Input thread received Keyboard Interrupt / EOF"}) = 1
               => ~running /\ input_thread \in {"check", "done"})
    /\ [][/\ (render_thread = "except" /\ render_thread' # "except")
               => /\ ~running'
                  /\ log' = Append(log, "Render thread exception")
                  /\ render_thread' = "check"
          /\ (input_thread = "except_base" /\ input_thread' # "except_base")
               => /\ ~running'
                  /\ log' = Append(log, "Input thread exception")
                  /\ input_thread' = "check"
          /\ (input_thread = "except_eof" /\ input_thread' # "except_eof")
               => /\ ~running'
                  /\ log' = Append(log,
                        "Input thread received Keyboard Interrupt / EOF")
                  /\ input_thread' = "check"
          /\ (HookBegins \/ (input_thread = "getch" /\ input_thread' # "getch"))
               => input_thread' # "died" /\ render_thread' # "died"]_vars

\* C8's case: both loops failed, each wrote its line, and both have ended.
C8_Witness ==
    /\ Count(log, {"Render thread exception"}) = 1
    /\ Count(log, {"Input thread exception"}) = 1
    /\ render_thread = "done"
    /\ input_thread = "done"

\* a call of start() past the launch of the input thread
PastLaunch == {"start_render", "join_input", "join_render", "exit", "returned"}

\* the calls of start() after the first: each begins when the controller
\* is running or has stopped
LaterCalls == Callers \ {1}

C10_SetupAtMostOnce == setup_calls <= 1

\* a call of start() whose setup() has returned
SetupReturned ==
    {"start_input", "start_render", "join_input", "join_render", "exit",
     "returned"}

\* this step is a read from or a write to the screen by one of the loops:
\* getch, getmaxyx, the addstr calls
ScreenAccess ==
    \/ input_thread = "getch" /\ input_thread' # "getch"
    \/ render_thread \in {"getmaxyx", "flush"} /\ render_thread' # render_thread

\* C11: whenever a loop invokes pre_render, render, post_render or keypress,
\* or reads from or writes to the screen, the first call of start() has
\* stored the screen in the controller and its setup() has returned; no
\* thread is started before that.
C11_SetupBeforeLoops ==
    /\ []((input_thread # "new" \/ render_thread # "new")
            => (screen = "stdscr" /\ caller[1] \in SetupReturned))
    /\ [][(HookBegins \/ ScreenAccess)
            => (/\ screen = "stdscr"
                /\ setup_calls >= 1
                /\ caller[1] \in SetupReturned)]_vars

\* C11's case: the render loop is about to invoke render and the input loop
\* is about to read a key.
C11_Witness ==
    /\ render_thread = "render"
    /\ input_thread = "getch"
    /\ screen = "stdscr"
    /\ setup_calls = 1

\* the flag is false and neither loop is inside an iteration
Quiet ==
    /\ ~running
    /\ input_thread \in {"new", "check", "done"}
    /\ render_thread \in {"new", "check", "done"}

\* C12: when the running flag is already false as start() is about to
\* launch the loops, both loops end, start() returns and the terminal is in
\* its normal mode as it returns; from a state where the flag is false and
\* no loop is inside an iteration, no loop enters one, so no hook of a loop
\* is invoked.
C12_StopBeforeFirstTick ==
    /\ (~running /\ caller[1] = "start_input" /\ input_thread = "new")
         ~> (/\ caller[1] = "returned"
             /\ terminal = "normal"
             /\ input_thread = "done"
             /\ render_thread = "done")
    /\ [][Quiet => (Quiet' /\ ~HookBegins)]_vars

\* C12's case: the flag is false while start() is launching the loops: the
\* input thread is started, the render thread not yet.
C12_Witness ==
    /\ ~running
    /\ caller[1] = "start_render"
    /\ render_thread = "new"
    /\ input_thread = "check"

\* 0 <= x < width and 0 <= y < height, for a screen size that is set
InBounds(coord, size) ==
    /\ size # NoSize
    /\ 0 <= coord[1] /\ coord[1] < size[2]
    /\ 0 <= coord[2] /\ coord[2] < size[1]

\* the device cell (height - (y + 1), x) of the logical position (x, y)
DeviceCell(coord, size) == <<size[1] - (coord[2] + 1), coord[1]>>

\* this step is one pass of the output loops of the render thread
FlushStep == render_thread = "flush" /\ flush_at' = flush_at + 1

\* C13: a call draw((x, y), c, attr) with (x, y) inside the screen raises
\* nothing and leaves the pixels as they were except that the device cell
\* (height - (y + 1), x) holds (c, attr), whatever an earlier draw left
\* there; and each pass of the flush calls addstr for its cell with the
\* entry the pixels hold for that cell at that moment.
C13_DrawThenFlush ==
    [][/\ \A c \in HookCalls :
            (c.api = "draw" /\ DrawingCall(c) /\ InBounds(c.coord, screen_size))
                => /\ result' = NoExc
                   /\ pixels' = Put(pixels, DeviceCell(c.coord, screen_size),
                                    <<c.string[1], c.attr>>)
       /\ FlushStep
            => \A cell \in DOMAIN pixels :
                  (cell[1] * screen_size[2] + cell[2] = flush_at)
                     => addstr' = <<cell[1], cell[2], pixels[cell]>>]_vars

\* C13's case: draw((0, 0), "H") and then draw((0, 0), "I") were made in a
\* tick on a screen of height 2, and the flush has written "I" at device
\* cell (1, 0).
C13_Witness ==
    /\ screen_size = <<2, 3>>
    /\ call = DrawCall(<<0, 0>>, "I", A_BOLD)
    /\ <<1, 0>> \in DOMAIN before
    /\ before[<<1, 0>>] = <<"H", A_BOLD>>
    /\ addstr = <<1, 0, <<"I", A_BOLD>>>>

\* C14: a call draw((x, y), c, attr) with (x, y) outside the screen raises
\* nothing and leaves the pixels exactly as they were.
C14_DrawOutsideIsNoOp ==
    (/\ call.api = "draw"
     /\ screen_size # NoSize
     /\ ~InBounds(call.coord, screen_size))
        => (result = NoExc /\ pixels = before)

\* C14's case: draw((-1, 0), ...) was called on pixels that hold an entry,
\* and they are as before.
C14_Witness ==
    /\ call.api = "draw"
    /\ call.coord = <<-1, 0>>
    /\ screen_size = <<2, 3>>
    /\ before # NoPixels
    /\ pixels = before
    /\ result = NoExc

\* the unit step (dx, dy) of a direction, from its name
UnitStep(direction) ==
    <<IF direction \in {LEFT, UP_LEFT, DOWN_LEFT} THEN -1
      ELSE IF direction \in {RIGHT, UP_RIGHT, DOWN_RIGHT} THEN 1 ELSE 0,
      IF direction \in {DOWN, DOWN_LEFT, DOWN_RIGHT} THEN -1
      ELSE IF direction \in {UP, UP_LEFT, UP_RIGHT} THEN 1 ELSE 0>>

\* the offset (h, v) of an origin on a screen of the given size, from its
\* name: left, center or right; bottom, center or top
OriginOffset(size, origin) ==
    <<IF origin \in {TOP_LEFT, CENTER_LEFT, BOTTOM_LEFT} THEN 0
      ELSE IF origin \in {TOP_RIGHT, CENTER_RIGHT, BOTTOM_RIGHT}
           THEN size[2] - 1
      ELSE size[2] \div 2,
      IF origin \in {BOTTOM_LEFT, BOTTOM_CENTER, BOTTOM_RIGHT} THEN 0
      ELSE IF origin \in {TOP_LEFT, TOP_CENTER, TOP_RIGHT} THEN size[1] - 1
      ELSE size[1] \div 2>>

\* the logical position of character i (counted from 1) of a draw_string
\* call: origin offset + (x, y) + (i - 1) * (dx, dy)
Target(c, size, i) ==
    <<OriginOffset(size, c.origin)[1] + c.coord[1]
         + (i - 1) * UnitStep(c.direction)[1],
      OriginOffset(size, c.origin)[2] + c.coord[2]
         + (i - 1) * UnitStep(c.direction)[2]>>

\* the characters of a draw_string call that fall on a device cell
Hits(c, size, cell) ==
    {i \in 1..Len(c.string) :
        /\ InBounds(Target(c, size, i), size)
        /\ DeviceCell(Target(c, size, i), size) = cell}

\* the pixels a draw_string call is to leave: every character whose
\* position is inside the screen is at its device cell, the others are
\* skipped, every other cell is as before
Expected(c, size, px) ==
    LET cells == {<<row, col>> : row \in 0..(size[1] - 1),
                                col \in 0..(size[2] - 1)}
        hit == {cell \in cells : Hits(c, size, cell) # {}}
    IN  [cell \in DOMAIN px \cup hit |->
            IF cell \in hit
            THEN <<c.string[CHOOSE i \in Hits(c, size, cell) :
                              \A j \in Hits(c, size, cell) : j <= i],
                   c.attr>>
            ELSE px[cell]]

\* C15: a draw_string call with one of the 8 directions and one of the 9
\* origins raises nothing and writes character i at origin offset + (x, y)
\* + i * (dx, dy), skipping exactly the characters that fall outside the
\* screen; on an 80x24 screen draw_string((0, 0), "HI", RIGHT, BOTTOM_LEFT)
\* yields 'H' at device cell (23, 0) and 'I' at (23, 1).
C15_DrawStringCells ==
    /\ (/\ call.api = "draw_string"
         /\ screen_size # NoSize
         /\ call.direction \in Directions
         /\ call.origin \in Origins)
            => (/\ result = NoExc
                /\ pixels = Expected(call, screen_size, before))
    /\ draw_string(NoPixels, <<24, 80>>, <<0, 0>>, <<"H", "I">>, A_NORMAL,
                   RIGHT, BOTTOM_LEFT)
          = Returned(Put(Put(NoPixels, <<23, 0>>, <<"H", A_NORMAL>>),
                         <<23, 1>>, <<"I", A_NORMAL>>))

\* C15's case: draw_string((-1, 0), "HI", RIGHT, BOTTOM_LEFT): 'H' falls
\* outside the screen and is skipped, 'I' is written at device cell (1, 0).
C15_Witness ==
    /\ call = DrawStringCall(<<-1, 0>>, <<"H", "I">>, A_BOLD, RIGHT,
                             BOTTOM_LEFT)
    /\ screen_size = <<2, 3>>
    /\ before = NoPixels
    /\ pixels = Put(NoPixels, <<1, 0>>, <<"I", A_BOLD>>)

\* C16: on every screen size each of the 9 origins resolves to (h, v) with
\* h = 0, floor(width / 2) or width - 1 and v = 0, floor(height / 2) or
\* height - 1, by its name; CENTER on 80x24 resolves to (40, 12).
C16_OriginClosedForm ==
    /\ screen_size # NoSize
         => \A origin \in Origins :
               get_origin_reference(screen_size, origin)
                 = Returned(OriginOffset(screen_size, origin))
    /\ get_origin_reference(<<24, 80>>, CENTER) = Returned(<<40, 12>>)

\* C16's case: on a 3x3 screen draw_string((0, 0), "HI", RIGHT, CENTER) has
\* written 'H' at the centre, logical (1, 1), and 'I' right of it.
C16_Witness ==
    /\ screen_size = <<3, 3>>
    /\ call = DrawStringCall(<<0, 0>>, <<"H", "I">>, A_BOLD, RIGHT, CENTER)
    /\ before = NoPixels
    /\ pixels = Put(Put(NoPixels, <<1, 1>>, <<"H", A_BOLD>>),
                    <<1, 2>>, <<"I", A_BOLD>>)

\* C17: an identifier that is not one of the 8 directions makes
\* get_directional_reference raise ValueError, one that is not one of the 9
\* origins makes get_origin_reference raise ValueError; a draw_string call
\* with such an identifier raises and leaves the pixels as they were, also
\* when its text is empty, and what it raises is that ValueError whenever
\* the screen size is set.
C17_UnknownIdentifierFails ==
    /\ \A id \in (DirectionArgs \cup OriginArgs) \ Directions :
          get_directional_reference(id) = Raised("ValueError")
    /\ \A id \in (DirectionArgs \cup OriginArgs) \ Origins :
          get_origin_reference(screen_size, id) = Raised("ValueError")
    /\ (/\ call.api = "draw_string"
         /\ (call.direction \notin Directions \/ call.origin \notin Origins))
            => (/\ result # NoExc
                /\ pixels = before
                /\ screen_size # NoSize => result = "ValueError")

\* C17's case: draw_string with an empty text and an unknown direction has
\* raised ValueError on pixels that hold an entry.
C17_Witness ==
    /\ call.api = "draw_string"
    /\ call.string = <<>>
    /\ call.direction \notin Directions
    /\ call.origin \in Origins
    /\ result = "ValueError"
    /\ before # NoPixels
    /\ pixels = before

\* this step is a drawing call that raised ValueError
RaisesValueError == result' = "ValueError" /\ \E c \in HookCalls : DrawingCall(c)

\* C18: the ValueError of a drawing call made in a hook with an unknown
\* direction or origin is not caught by the except clause of the loop that
\* invoked the hook: the step does not lead into the clause that stops the
\* controller and logs.
C18_ValueErrorNotCaught ==
    [][/\ (/\ render_thread \in RenderHooks
            /\ render_thread' # render_thread
            /\ RaisesValueError) => render_thread' # "except"
       /\ (/\ input_thread = "keypress"
            /\ input_thread' # "keypress"
            /\ RaisesValueError) => input_thread' # "except_base"]_vars

\* C19: when a render tick begins (the loop test passed; nothing of the try
\* block has run yet) the pixels are empty.
C19_EmptyAtTickStart ==
    render_thread \in {"sleep", "getmaxyx"} => pixels = NoPixels

\* C20: the output loops pass every cell of the screen once, in row order:
\* each pass calls addstr for its cell with the entry of the pixels or the
\* blank pixel, and, whether addstr raised or not, goes on to the next cell
\* and leaves the running flag as it is; the loops are left only after the
\* last cell, never through the except clause of the render loop.
C20_FlushWritesEveryCell ==
    /\ [](/\ (render_thread = "flush"
                => flush_at < screen_size[1] * screen_size[2])
          /\ (render_thread = "clear"
                => flush_at = screen_size[1] * screen_size[2])
          /\ (render_thread \notin {"flush", "clear"} => flush_at = 0))
    /\ [][render_thread = "flush"
            => /\ render_thread' \in {"flush", "clear"}
               /\ (render_thread' # "flush" \/ flush_at' # flush_at)
                    => /\ flush_at' = flush_at + 1
                       /\ running' = running
                       /\ addstr' =
                            <<flush_at \div screen_size[2],
                              flush_at % screen_size[2],
                              IF <<flush_at \div screen_size[2],
                                   flush_at % screen_size[2]>> \in DOMAIN pixels
                              THEN pixels[<<flush_at \div screen_size[2],
                                           flush_at % screen_size[2]>>]
                              ELSE <<" ", A_NORMAL>>>>]_vars

\* C20's case: a flush of a 2x3 screen is complete, one of its addstr calls
\* raised, the last cell was written as a blank, the pixels hold an entry
\* and the controller is still running.
C20_Witness ==
    /\ swallowed
    /\ render_thread = "clear"
    /\ screen_size = <<2, 3>>
    /\ flush_at = 6
    /\ addstr = <<1, 2, <<" ", A_NORMAL>>>>
    /\ pixels # NoPixels
    /\ running


\* C21: in the input loop a key read that times out (getch returns -1)
\* invokes no keypress hook, raises nothing and leaves the running flag and
\* the log unchanged, and every key code received is passed to keypress
\* exactly once, in the order received: keypress is only ever invoked with
\* the one key code read last, which is the only one not yet dispatched, and
\* outside that invocation no key code received waits to be dispatched
C21_KeysDispatchedOnce ==
    /\ [](IF input_thread = "keypress"
          THEN key \in Keys /\ undispatched = <<key>>
          ELSE undispatched = <<>>)
    /\ [][(input_thread = "getch" /\ input_thread' # "getch" /\ key' = NoKey
           /\ input_thread' \notin {"except_eof", "except_base", "died"})
          => (/\ input_thread' = "check"
              /\ running' = running
              /\ log' = log
              /\ stop_in_hook' = stop_in_hook)]_vars

\* a key code was read and keypress returned from it, the loop runs on
C21_Witness ==
    /\ input_thread = "check"
    /\ key \in Keys
    /\ undispatched = <<>>
    /\ running = TRUE
    /\ stop_in_hook = FALSE
    /\ log = <<"GUI start">>


\* the device cell lies in the rows and columns the output loops pass:
\* for y in range(screen_height): for x in range(screen_width)
InWindow(cell, size) ==
    /\ size # NoSize
    /\ 0 <= cell[1] /\ cell[1] < size[1]
    /\ 0 <= cell[2] /\ cell[2] < size[2]

\* C22: the accesses of the two loops to the pixels and the screen size are
\* synchronized, so that a drawing call of the keypress hook never works
\* with the size of a tick other than the one whose flush displays what it
\* wrote: when a tick samples a size that differs from the one before, the
\* pixels hold no entry, placed with the size before, that the flush of this
\* tick will display.
C22_NoStaleDimensions ==
    [][(screen_size # NoSize /\ screen_size' # screen_size)
       => \A cell \in DOMAIN pixels : ~InWindow(cell, screen_size')]_vars

\* C23: whenever draw or draw_string is executed from a hook the screen
\* size is defined: the last drawing call found GUI.screen_size set by the
\* render loop and did not fail on a missing screen_width or screen_height.
C23_DimensionsDefined ==
    call.api # "none" => (screen_size # NoSize /\ result # "AttributeError")

\* C24: at the moment the flush of a tick begins every key (row, col) of the
\* pixels satisfies 0 <= row < height and 0 <= col < width for the size the
\* tick sampled, so the output loops pass every stored entry.
C24_KeysInsideAtFlush ==
    (render_thread = "flush" /\ flush_at = 0)
    => \A cell \in DOMAIN pixels : InWindow(cell, screen_size)


\* C25: no in-bounds write is lost: while the controller keeps running,
\* what a draw of the keypress hook stored is passed to addstr by a flush
\* before the pixels are emptied, unless a later draw changed the cell:
\* whenever the render loop executes gui.pixels = {}, no cell the keypress
\* hook drew is still waiting for its addstr call.
C25_NoWriteLost ==
    [][(render_thread = "clear" /\ render_thread' # "clear"
        /\ running = TRUE)
       => unflushed = {}]_vars

====
